---------------------------- MODULE Spec2Model ----------------------------
(***************************************************************************)
(* img2vid: two command-line tools over a directory of still images.       *)
(*   img2vid-bounce (src/src/img2vid/utils/bounce.py) mirrors a range of   *)
(*   the sorted image list into newly numbered copies;                     *)
(*   img2vid (src/src/img2vid/cli.py) writes an ffmpeg concat manifest and *)
(*   launches the encoder.                                                 *)
(* Strings are sequences of one-character strings, so that splitext,       *)
(* casefold, the sort order, the {:03d} format and the quote escaping are  *)
(* computed the way the code computes them.                                *)
(***************************************************************************)
EXTENDS Integers, Sequences, FiniteSets, TLC

(***************************************************************************)
(* Bounds of the model.                                                    *)
(***************************************************************************)
\* pre-existing generated files d_001.png .. d_<MaxPre>.png a directory may hold
MaxPre == 2
\* --start / --end are drawn from 0 .. MaxIdx
MaxIdx == 4
\* find_free_block alone: occupied numbers are drawn from 1 .. MaxOcc
MaxOcc == 9
\* find_free_block alone: count is drawn from 1 .. MaxCount
MaxCount == 3
\* the encode tool finds 0 .. MaxImgs images
MaxImgs == 3

(***************************************************************************)
(* Optional values: None is <<>>, a supplied value v is <<v>>.             *)
(***************************************************************************)
None == <<>>
Some(v) == <<v>>
IsNone(o) == o = <<>>
Val(o) == o[1]

(***************************************************************************)
(* Strings.                                                                *)
(***************************************************************************)
\* code points of the characters the model uses
CodePoint ==
  ( "'" :> 39 @@ "." :> 46 @@ "/" :> 47 @@ "\\" :> 92 @@ "_" :> 95
    @@ "0" :> 48 @@ "1" :> 49 @@ "2" :> 50 @@ "3" :> 51 @@ "4" :> 52
    @@ "5" :> 53 @@ "6" :> 54 @@ "7" :> 55 @@ "8" :> 56 @@ "9" :> 57
    @@ "B" :> 66 @@ "D" :> 68 @@ "G" :> 71 @@ "N" :> 78 @@ "P" :> 80
    @@ "a" :> 97 @@ "b" :> 98 @@ "c" :> 99 @@ "d" :> 100 @@ "e" :> 101
    @@ "g" :> 103 @@ "i" :> 105 @@ "j" :> 106 @@ "m" :> 109 @@ "n" :> 110
    @@ "o" :> 111 @@ "p" :> 112 @@ "s" :> 115 @@ "t" :> 116 @@ "u" :> 117
    @@ "w" :> 119 @@ "x" :> 120 @@ "z" :> 122 )

\* str.lower / str.casefold on one character (ASCII)
LowerChar(c) ==
  CASE c = "B" -> "b" [] c = "D" -> "d" [] c = "G" -> "g"
    [] c = "M" -> "m" [] c = "N" -> "n" [] c = "P" -> "p" [] OTHER -> c

\* str.lower(), and str.casefold() on ASCII text
lower(s) == [i \in 1..Len(s) |-> LowerChar(s[i])]

\* Python's string order: lexicographic by code point, a proper prefix first
RECURSIVE StrLess(_, _)
StrLess(a, b) ==
  IF b = <<>> THEN FALSE
  ELSE IF a = <<>> THEN TRUE
  ELSE IF CodePoint[Head(a)] # CodePoint[Head(b)]
       THEN CodePoint[Head(a)] < CodePoint[Head(b)]
       ELSE StrLess(Tail(a), Tail(b))

\* s.startswith(p)
StartsWith(s, p) == Len(p) <= Len(s) /\ SubSeq(s, 1, Len(p)) = p

\* index of the last "." of s, 0 when there is none (str.rfind + 1)
LastDot(s) ==
  LET D == {i \in 1..Len(s) : s[i] = "."}
  IN IF D = {} THEN 0 ELSE CHOOSE i \in D : \A j \in D : j <= i

\* os.path.splitext on a name without separators: <<stem, ext>>; a dot that
\* has only dots before it starts no extension
splitext(p) ==
  LET d == LastDot(p)
  IN IF d > 0 /\ \E i \in 1..(d - 1) : p[i] # "."
     THEN <<SubSeq(p, 1, d - 1), SubSeq(p, d, Len(p))>>
     ELSE <<p, <<>>>>

\* s.replace(old, new) for a one-character old
RECURSIVE Replace(_, _, _)
Replace(s, old, new) ==
  IF s = <<>> THEN <<>>
  ELSE (IF Head(s) = old THEN new ELSE <<Head(s)>>) \o Replace(Tail(s), old, new)

\* the decimal digits of a natural number (format type d)
RECURSIVE Dec(_)
Dec(i) ==
  LET d == <<"0", "1", "2", "3", "4", "5", "6", "7", "8", "9">>[(i % 10) + 1]
  IN IF i < 10 THEN <<d>> ELSE Dec(i \div 10) \o <<d>>

\* zero fill on the left up to width w; longer text is left as it is
RECURSIVE ZFill(_, _)
ZFill(s, w) == IF Len(s) >= w THEN s ELSE ZFill(<<"0">> \o s, w)

\* f"{i:03d}"
Fmt03d(i) == ZFill(Dec(i), 3)


(***************************************************************************)
(* State.                                                                  *)
(***************************************************************************)
VARIABLES
  tool,         \* which program this run is: "bounce", "encode", "find_free_block"
  \* ---- img2vid-bounce
  fs,           \* the current directory: name -> [kind, data]
  dir0,         \* the directory as it was when this invocation started
  b_args,       \* the parsed arguments (argparse.Namespace)
  b_pc,         \* position in main
  b_run,        \* 1: the first invocation; 2: the same command again without --dry-run
  files,        \* list_images' result
  s0, e0,       \* resolve_range's result
  src_indices,  \* the indices to duplicate
  start_block,  \* find_free_block's result
  pos,          \* position of the copy loop in src_indices (1-based)
  created,      \* the list `created`
  log,          \* the "src -> dst" lines printed, as <<src, dst>>
  copies,       \* the shutil.copy2 calls made, as <<src, dst>>
  planned,      \* the lines the dry run printed, kept for the second invocation
  b_err,        \* the sys.exit message that ended the run, "" if none
  preview,      \* the preview window printed at the end
  \* ---- find_free_block called on its own
  ffb,          \* [stem, ext, count, result]
  \* ---- img2vid (the encode tool)
  e_args,       \* the parsed arguments
  e_pc,         \* position in main
  imgs,         \* collect_images' result
  ffmpeg,       \* find_ffmpeg's result
  crf, pix_fmt, \* the quality defaults after lines 96-107
  filters,      \* the filter graph
  td_exists,    \* the TemporaryDirectory exists
  concat,       \* the content of <td>/list.txt: None while there is no such file
  cmd,          \* the command line
  launched,     \* the command lines handed to subprocess.run
  e_ret,        \* main's return value, None while none is set
  e_exc,        \* the exception that left main, "" if none
  e_err,        \* what main printed to stderr, "" if nothing
  folder,       \* what main found at args.input: "missing", "file" or "dir"
  mktemps       \* how many scratch directories have been created

bvars == <<fs, dir0, b_args, b_pc, b_run, files, s0, e0, src_indices,
           start_block, pos, created, log, copies, planned, b_err, preview>>
evars == <<e_args, e_pc, imgs, ffmpeg, crf, pix_fmt, filters, td_exists, concat,
           cmd, launched, e_ret, e_exc, e_err, folder, mktemps>>
vars == <<tool, ffb, bvars, evars>>

(***************************************************************************)
(* img2vid-bounce: names and directories the runs start from.              *)
(***************************************************************************)
IMAGE_EXTS ==
  { <<".", "p", "n", "g">>, <<".", "j", "p", "g">>, <<".", "j", "p", "e", "g">>,
    <<".", "b", "m", "p">>, <<".", "w", "e", "b", "p">>, <<".", "t", "i", "f">>,
    <<".", "t", "i", "f", "f">> }

A_png == <<"a", ".", "p", "n", "g">>
B_png == <<"B", ".", "p", "n", "g">>
C_png == <<"c", ".", "p", "n", "g">>
D_png == <<"d", ".", "p", "n", "g">>
ZZ_png == <<"z", "z", ".", "p", "n", "g">>
Notes_txt == <<"n", "o", "t", "e", "s", ".", "t", "x", "t">>
Sub_png == <<"s", "u", "b", ".", "p", "n", "g">>
Originals == {A_png, B_png, C_png, D_png}

\* f"{end_stem}_{i:03d}{end_ext}"
Candidate(end_stem, end_ext, i) == end_stem \o <<"_">> \o Fmt03d(i) \o end_ext

Entries(names, kind) == [n \in names |-> [kind |-> kind, data |-> n]]

\* a directory of the model: some of the images, some files generated by an
\* earlier run on d.png, a text file and a subdirectory named like an image
Directories ==
  { Entries(O, "file")
      @@ Entries({Candidate(<<"d">>, <<".", "p", "n", "g">>, i) : i \in P}, "file")
      @@ Entries({Notes_txt}, "file") @@ Entries({Sub_png}, "dir")
    : O \in SUBSET Originals, P \in SUBSET (1..MaxPre) }

os_path_exists(dir, name) == name \in DOMAIN dir
os_path_isfile(dir, name) == name \in DOMAIN dir /\ dir[name].kind = "file"

\* shutil.copy2(src, dst): dst becomes a regular file with src's content
copy2(dir, src, dst) == (dst :> [kind |-> "file", data |-> dir[src].data]) @@ dir

(***************************************************************************)
(* list_images                                                             *)
(***************************************************************************)
\* the sequences that list S in ascending order of casefold; names with the
\* same key keep the order os.listdir gave them, which is any order
RECURSIVE SortedByCasefold(_)
SortedByCasefold(S) ==
  IF S = {} THEN {<<>>}
  ELSE LET Mins == {m \in S : \A x \in S : ~StrLess(lower(x), lower(m))}
       IN UNION {{<<m>> \o t : t \in SortedByCasefold(S \ {m})} : m \in Mins}

\* main's normalisation of --exts into ext_filter; {} stands for None
ExtFilter(exts) ==
  { IF StartsWith(exts[i], <<".">>) THEN lower(exts[i]) ELSE <<".">> \o lower(exts[i])
    : i \in 1..Len(exts) }

\* the possible results of list_images(ext_filter) in directory dir
list_images(dir, ext_filter) ==
  SortedByCasefold(
    { f \in DOMAIN dir :
        /\ os_path_isfile(dir, f)
        /\ LET ext == lower(splitext(f)[2])
           IN \/ (ext_filter # {} /\ ext \in ext_filter)
              \/ (ext_filter = {} /\ ext \in IMAGE_EXTS) })

\* files.index(name): 0-based position of the first occurrence, -1 if absent
IndexOf(fl, name) ==
  LET I == {i \in 1..Len(fl) : fl[i] = name}
  IN IF I = {} THEN -1 ELSE (CHOOSE i \in I : \A j \in I : i <= j) - 1

(***************************************************************************)
(* find_free_block                                                         *)
(***************************************************************************)
\* one pass of the while loop at n, then the next
RECURSIVE FindFrom(_, _, _, _, _)
FindFrom(dir, end_stem, end_ext, count, n) ==
  IF \A i \in n..(n + count - 1) : ~os_path_exists(dir, Candidate(end_stem, end_ext, i))
  THEN n
  ELSE FindFrom(dir, end_stem, end_ext, count, n + 1)

\* a scan that jumps past the whole block on a collision instead of sliding by one
RECURSIVE FindFromJump(_, _, _, _, _)
FindFromJump(dir, end_stem, end_ext, count, n) ==
  IF \A i \in n..(n + count - 1) : ~os_path_exists(dir, Candidate(end_stem, end_ext, i))
  THEN n
  ELSE FindFromJump(dir, end_stem, end_ext, count, n + count)

find_free_block_Jump(dir, end_stem, end_ext, count) ==
  FindFromJump(dir, end_stem, end_ext, count, 1)

\* a scan that tests only the first name of the block
find_free_block_FirstOnly(dir, end_stem, end_ext, count) ==
  FindFrom(dir, end_stem, end_ext, 1, 1)

find_free_block(dir, end_stem, end_ext, count) ==
  FindFrom(dir, end_stem, end_ext, count, 1)


(***************************************************************************)
(* resolve_range                                                           *)
(***************************************************************************)
\* Python truth of an optional string: None and "" are false
Truthy(o) == ~IsNone(o) /\ Val(o) # <<>>

Exit(msg) == [ok |-> FALSE, s |-> 0, e |-> 0, err |-> msg]

\* the validation without its upper bound
CheckRange_NoUpper(fl, s, e) ==
  IF s < 0 \/ s > e
  THEN Exit("bad_range")
  ELSE [ok |-> TRUE, s |-> s, e |-> e, err |-> ""]

\* the final validation of resolve_range (lines 89-91)
CheckRange(fl, s, e) ==
  IF s < 0 \/ e >= Len(fl) \/ s > e
  THEN Exit("bad_range")
  ELSE [ok |-> TRUE, s |-> s, e |-> e, err |-> ""]

\* a resolve_range whose index branch comes first
resolve_range_IndexFirst(fl, args) ==
  IF ~IsNone(args.start) \/ ~IsNone(args.end)
  THEN IF IsNone(args.start) \/ IsNone(args.end)
       THEN Exit("index_together")
       ELSE CheckRange(fl, Val(args.start) - 1, Val(args.end) - 1)
  ELSE IF ~IsNone(args.from_name) \/ ~IsNone(args.to_name)
  THEN IF ~(Truthy(args.from_name) /\ Truthy(args.to_name))
       THEN Exit("names_together")
       ELSE IF IndexOf(fl, Val(args.from_name)) < 0 \/ IndexOf(fl, Val(args.to_name)) < 0
            THEN Exit("name_not_found")
            ELSE CheckRange(fl, IndexOf(fl, Val(args.from_name)),
                                IndexOf(fl, Val(args.to_name)))
  ELSE CheckRange(fl, 0, Len(fl) - 1)

\* resolve_range(files, args): the pair returned, or the sys.exit that ends the run
resolve_range(fl, args) ==
  IF ~IsNone(args.from_name) \/ ~IsNone(args.to_name)
  THEN IF ~(Truthy(args.from_name) /\ Truthy(args.to_name))
       THEN Exit("names_together")
       ELSE IF IndexOf(fl, Val(args.from_name)) < 0 \/ IndexOf(fl, Val(args.to_name)) < 0
            THEN Exit("name_not_found")
            ELSE CheckRange(fl, IndexOf(fl, Val(args.from_name)),
                                IndexOf(fl, Val(args.to_name)))
  ELSE IF ~IsNone(args.start) \/ ~IsNone(args.end)
  THEN IF IsNone(args.start) \/ IsNone(args.end)
       THEN Exit("index_together")
       ELSE CheckRange(fl, Val(args.start) - 1, Val(args.end) - 1)
  ELSE CheckRange(fl, 0, Len(fl) - 1)

(***************************************************************************)
(* img2vid-bounce: main                                                    *)
(***************************************************************************)
IdxVals == {None} \cup {Some(i) : i \in 0..MaxIdx}
NameVals == {None, Some(<<>>), Some(A_png), Some(D_png), Some(ZZ_png)}
ExtVals == {<<<<"t", "x", "t">>>>, <<<<".", "P", "N", "G">>>>}

Args(st, en, fr, to, ex, dr) ==
  [start |-> st, end |-> en, from_name |-> fr, to_name |-> to, exts |-> ex,
   dry_run |-> dr]

\* the command lines of the model: index bounds, filename bounds, both kinds
\* together, or an extension filter
BounceArgs ==
  {Args(st, en, None, None, <<>>, dr) : st \in IdxVals, en \in IdxVals, dr \in BOOLEAN}
  \cup {Args(None, None, fr, to, <<>>, dr) : fr \in NameVals, to \in NameVals, dr \in BOOLEAN}
  \cup {Args(st, en, fr, to, <<>>, dr) :
          st \in {None, Some(2)}, en \in {None, Some(2)},
          fr \in {None, Some(A_png), Some(D_png)},
          to \in {None, Some(A_png), Some(D_png)}, dr \in BOOLEAN}
  \cup {Args(None, None, None, None, ex, dr) : ex \in ExtVals, dr \in BOOLEAN}

end_file == files[e0 + 1]
end_stem == splitext(end_file)[1]
end_ext == splitext(end_file)[2]

BounceLocals0 ==
  /\ files = <<>> /\ s0 = 0 /\ e0 = 0 /\ src_indices = <<>> /\ start_block = 0
  /\ pos = 0 /\ created = <<>> /\ log = <<>> /\ copies = <<>> /\ b_err = ""
  /\ preview = <<>>

\* lines 95-104: parse_args, the extension filter, list_images, "no images"
ListImages ==
  /\ tool = "bounce" /\ b_pc = "start"
  /\ \E fl \in list_images(fs, ExtFilter(b_args.exts)) :
       /\ files' = fl
       /\ IF fl = <<>>
          THEN b_pc' = "exit" /\ b_err' = "no_images"
          ELSE b_pc' = "resolve" /\ b_err' = b_err
  /\ UNCHANGED <<tool, ffb, evars, fs, dir0, b_args, b_run, s0, e0, src_indices,
                 start_block, pos, created, log, copies, planned, preview>>

\* line 106
ResolveRange ==
  /\ tool = "bounce" /\ b_pc = "resolve"
  /\ LET r == resolve_range(files, b_args)
     IN IF r.ok
        THEN s0' = r.s /\ e0' = r.e /\ b_pc' = "plan" /\ b_err' = b_err
        ELSE s0' = s0 /\ e0' = e0 /\ b_pc' = "exit" /\ b_err' = r.err
  /\ UNCHANGED <<tool, ffb, evars, fs, dir0, b_args, b_run, files, src_indices,
                 start_block, pos, created, log, copies, planned, preview>>

\* list(range(e0, s0, -1)): the end frame included, the start frame left out
SrcIndices_FromEnd(s, e) == [j \in 1..(e - s) |-> e - j + 1]

\* list(range(e0 - 1, s0 - 1, -1))
SrcIndices(s, e) == [j \in 1..(e - s) |-> e - j]

\* a Plan whose dry run skips the allocator and numbers from 1
Plan_DryFromOne ==
  /\ tool = "bounce" /\ b_pc = "plan"
  /\ src_indices' = SrcIndices(s0, e0)
  /\ IF src_indices' = <<>>
     THEN b_pc' = "done" /\ start_block' = start_block /\ pos' = pos
     ELSE /\ b_pc' = "copy"
          /\ start_block' = IF b_args.dry_run THEN 1
                            ELSE find_free_block(fs, end_stem, end_ext, Len(src_indices'))
          /\ pos' = 1
  /\ UNCHANGED <<tool, ffb, evars, fs, dir0, b_args, b_run, files, s0, e0,
                 created, log, copies, planned, b_err, preview>>

\* lines 108-121: the indices to copy, the early return, the free block
Plan ==
  /\ tool = "bounce" /\ b_pc = "plan"
  /\ src_indices' = SrcIndices(s0, e0)
  /\ IF src_indices' = <<>>
     THEN b_pc' = "done" /\ start_block' = start_block /\ pos' = pos
     ELSE /\ b_pc' = "copy"
          /\ start_block' = find_free_block(fs, end_stem, end_ext, Len(src_indices'))
          /\ pos' = 1
  /\ UNCHANGED <<tool, ffb, evars, fs, dir0, b_args, b_run, files, s0, e0,
                 created, log, copies, planned, b_err, preview>>

\* lines 124-132: one pass of the copy loop
CopyStep ==
  /\ tool = "bounce" /\ b_pc = "copy" /\ pos <= Len(src_indices)
  /\ LET src == files[src_indices[pos] + 1]
         dst == Candidate(end_stem, end_ext, start_block + pos - 1)
     IN /\ IF b_args.dry_run
           THEN fs' = fs /\ copies' = copies
           ELSE fs' = copy2(fs, src, dst) /\ copies' = Append(copies, <<src, dst>>)
        /\ log' = Append(log, <<src, dst>>)
        /\ created' = Append(created, dst)
  /\ pos' = pos + 1
  /\ UNCHANGED <<tool, ffb, evars, dir0, b_args, b_pc, b_run, files, s0, e0,
                 src_indices, start_block, planned, b_err, preview>>

Min(a, b) == IF a < b THEN a ELSE b
Max(a, b) == IF a > b THEN a ELSE b

\* lines 134-139: the preview window, after the loop
Preview ==
  /\ tool = "bounce" /\ b_pc = "copy" /\ pos > Len(src_indices)
  /\ LET pv == SubSeq(files, 1, e0 + 1) \o created \o SubSeq(files, e0 + 2, Len(files))
         window_start == Max(0, e0 - 2)
         window_end == Min(Len(pv), e0 + 3 + Len(created))
     IN preview' = SubSeq(pv, window_start + 1, window_end)
  /\ b_pc' = "done"
  /\ UNCHANGED <<tool, ffb, evars, fs, dir0, b_args, b_run, files, s0, e0,
                 src_indices, start_block, pos, created, log, copies, planned, b_err>>

\* the command is run again in the same directory, now without --dry-run
Reinvoke ==
  /\ tool = "bounce" /\ b_pc \in {"done", "exit"} /\ b_run = 1 /\ b_args.dry_run
  /\ b_run' = 2
  /\ b_args' = [b_args EXCEPT !.dry_run = FALSE]
  /\ planned' = log
  /\ dir0' = fs
  /\ b_pc' = "start"
  /\ files' = <<>> /\ s0' = 0 /\ e0' = 0 /\ src_indices' = <<>> /\ start_block' = 0
  /\ pos' = 0 /\ created' = <<>> /\ log' = <<>> /\ copies' = <<>> /\ b_err' = ""
  /\ preview' = <<>>
  /\ UNCHANGED <<tool, ffb, evars, fs>>

BounceNext == ListImages \/ ResolveRange \/ Plan \/ CopyStep \/ Preview \/ Reinvoke


(***************************************************************************)
(* img2vid (cli.py): the manifest                                          *)
(***************************************************************************)
\* _escape_single_quotes:  '  becomes  '\''
_escape_single_quotes(s) == Replace(s, "'", <<"'", "\\", "'", "'">>)

\* the line  file '<posix>'
FileLine(posix) == [kw |-> "file", arg |-> _escape_single_quotes(posix)]
\* the line  duration <1.0 / fps>, the quotient kept as <<1, fps>>
DurationLine(fps) == [kw |-> "duration", arg |-> <<1, fps>>]

\* the list `lines` after the loop of build_concat_file has run over imgs[1..k]
RECURSIVE LoopLines(_, _, _)
LoopLines(il, fps, k) ==
  IF k = 0 THEN <<>>
  ELSE LoopLines(il, fps, k - 1) \o <<FileLine(il[k])>>
         \o (IF k - 1 < Len(il) - 1 THEN <<DurationLine(fps)>> ELSE <<>>)

\* build_concat_file raises ZeroDivisionError at the first 1.0 / fps with fps = 0
ConcatRaises(il, fps) == fps = 0 /\ Len(il) > 1

\* the loop's lines alone, the last file not repeated
ConcatLines_NoRepeat(il, fps) == LoopLines(il, fps, Len(il))

\* the lines build_concat_file writes: the loop's lines, then the last file again
ConcatLines(il, fps) == LoopLines(il, fps, Len(il)) \o <<FileLine(il[Len(il)])>>

(***************************************************************************)
(* img2vid (cli.py): arguments                                             *)
(***************************************************************************)
Libx264 == <<"l", "i", "b", "x", "2", "6", "4">>
Libx265 == <<"l", "i", "b", "x", "2", "6", "5">>
Prores_ks == <<"p", "r", "o", "r", "e", "s", "_", "k", "s">>
Out_MP4 == <<"o", ".", "M", "P", "4">>
Out_mkv == <<"o", ".", "m", "k", "v">>
Dot_mp4 == <<".", "m", "p", "4">>

\* the i-th image of the input folder, as its resolved posix path
ImgPath(i) ==
  <<"/">> \o (IF i % 2 = 0 THEN <<"'">> ELSE <<>>) \o Dec(i) \o <<".", "p", "n", "g">>

EncodeArgs ==
  [ ffmpeg : {None, Some("/opt/ffmpeg")},
    codec : {Libx264, Libx265, Prores_ks},
    crf : {None, Some(18)},
    pix_fmt : {None, Some("yuv422p")},
    lossless : BOOLEAN,
    dry_run : BOOLEAN,
    fps : {0, 16},
    output : {Out_MP4, Out_mkv},
    size : {None, Some(<<1920, 1080>>)},
    preset : {"slow"} ]


(***************************************************************************)
(* img2vid (cli.py): main                                                  *)
(***************************************************************************)
\* lines 96-107: <<crf, pix_fmt>> after the quality defaults
QualityDefaults(args) ==
  LET lossless264 == args.lossless /\ StartsWith(args.codec, Libx264) /\ IsNone(args.crf)
      crf1 == IF lossless264 THEN Some(0) ELSE args.crf
      pix1 == IF lossless264 /\ IsNone(args.pix_fmt) THEN Some("yuv444p") ELSE args.pix_fmt
      crf2 == IF IsNone(crf1)
              THEN (IF StartsWith(args.codec, Libx265) THEN Some(22) ELSE Some(16))
              ELSE crf1
      pix2 == IF IsNone(pix1) THEN Some("yuv420p") ELSE pix1
  IN <<crf2, pix2>>

\* lines 112-116: the filter list
Filters(args) ==
  (IF ~IsNone(args.size) THEN <<[t |-> "scale_lanczos", v |-> Val(args.size)[1]]>> ELSE <<>>)
    \o <<[t |-> "scale_even", v |-> 2]>>

\* a literal word of the command line, and str(x) of a value
Word(s) == [t |-> "word", v |-> s]
Str(x) == [t |-> "str", v |-> x]

\* lines 124-138: the command line
Command(args, ff, c, pf, fl) ==
  <<Str(ff), Word("-y"), Word("-f"), Word("concat"), Word("-safe"), Word("0"),
    Word("-i"), Word("list.txt"), Word("-r"), Str(args.fps)>>
  \o (IF fl # <<>> THEN <<Word("-vf"), Str(fl)>> ELSE <<>>)
  \o (IF args.codec = Prores_ks
      THEN <<Word("-c:v"), Word("prores_ks"), Word("-profile:v"), Word("3"),
             Word("-pix_fmt"), Str("yuv422p10le")>>
      ELSE <<Word("-c:v"), Str(args.codec), Word("-crf"), Str(Val(c)),
             Word("-preset"), Str(args.preset), Word("-pix_fmt"), Str(Val(pf))>>)
  \o (IF StartsWith(args.codec, Libx265) /\ lower(splitext(args.output)[2]) = Dot_mp4
      THEN <<Word("-tag:v"), Word("hvc1")>> ELSE <<>>)
  \o <<Str(args.output)>>

\* a check that reports the bad folder and goes on
CheckInput_GoesOn ==
  /\ tool = "encode" /\ e_pc = "check"
  /\ \E st \in {"missing", "file", "dir"} :
       /\ folder' = st
       /\ e_err' = IF st # "dir" THEN "input_folder" ELSE e_err
       /\ e_ret' = e_ret /\ e_pc' = "collect"
  /\ UNCHANGED <<tool, ffb, bvars, e_args, imgs, ffmpeg, crf, pix_fmt, filters,
                 td_exists, concat, cmd, launched, e_exc, mktemps>>

\* lines 83-86: the input folder
CheckInput ==
  /\ tool = "encode" /\ e_pc = "check"
  /\ \E st \in {"missing", "file", "dir"} :
       /\ folder' = st
       /\ IF st # "dir"
          THEN e_err' = "input_folder" /\ e_ret' = Some(2) /\ e_pc' = "returned"
          ELSE e_err' = e_err /\ e_ret' = e_ret /\ e_pc' = "collect"
  /\ UNCHANGED <<tool, ffb, bvars, e_args, imgs, ffmpeg, crf, pix_fmt, filters,
                 td_exists, concat, cmd, launched, e_exc, mktemps>>

\* lines 88-92: collect_images finds the first n images of the folder, sorted
CollectImages ==
  /\ tool = "encode" /\ e_pc = "collect"
  /\ \E n \in 0..MaxImgs :
       /\ imgs' = [i \in 1..n |-> ImgPath(i)]
       /\ IF n = 0
          THEN e_err' = "no_images" /\ e_ret' = Some(3) /\ e_pc' = "returned"
          ELSE e_err' = e_err /\ e_ret' = e_ret /\ e_pc' = "find"
  /\ UNCHANGED <<tool, ffb, bvars, e_args, ffmpeg, crf, pix_fmt, filters,
                 td_exists, concat, cmd, launched, e_exc, folder, mktemps>>

\* line 94: find_ffmpeg
FindFfmpeg ==
  /\ tool = "encode" /\ e_pc = "find"
  /\ \E which \in {None, Some("/usr/bin/ffmpeg")} :
       LET ff == IF ~IsNone(e_args.ffmpeg) THEN e_args.ffmpeg ELSE which
       IN IF IsNone(ff)
          THEN ffmpeg' = ffmpeg /\ e_exc' = "SystemExit: ffmpeg not found" /\ e_pc' = "raised"
          ELSE ffmpeg' = ff /\ e_exc' = e_exc /\ e_pc' = "defaults"
  /\ UNCHANGED <<tool, ffb, bvars, e_args, imgs, crf, pix_fmt, filters, td_exists,
                 concat, cmd, launched, e_ret, e_err, folder, mktemps>>

\* lines 96-117: quality defaults and the filter graph
Defaults ==
  /\ tool = "encode" /\ e_pc = "defaults"
  /\ crf' = QualityDefaults(e_args)[1]
  /\ pix_fmt' = QualityDefaults(e_args)[2]
  /\ filters' = Filters(e_args)
  /\ e_pc' = "mktemp"
  /\ UNCHANGED <<tool, ffb, bvars, e_args, imgs, ffmpeg, td_exists, concat, cmd,
                 launched, e_ret, e_exc, e_err, folder, mktemps>>

\* line 120: with tempfile.TemporaryDirectory() as td
MakeTemp ==
  /\ tool = "encode" /\ e_pc = "mktemp"
  /\ td_exists' = TRUE /\ mktemps' = mktemps + 1
  /\ e_pc' = "build"
  /\ UNCHANGED <<tool, ffb, bvars, e_args, imgs, ffmpeg, crf, pix_fmt, filters,
                 concat, cmd, launched, e_ret, e_exc, e_err, folder>>

\* lines 121-122: build_concat_file writes list.txt, or raises
BuildConcat ==
  /\ tool = "encode" /\ e_pc = "build"
  /\ IF ConcatRaises(imgs, e_args.fps)
     THEN concat' = concat /\ e_exc' = "ZeroDivisionError" /\ e_pc' = "cleanup"
     ELSE concat' = Some(ConcatLines(imgs, e_args.fps)) /\ e_exc' = e_exc
          /\ e_pc' = "command"
  /\ UNCHANGED <<tool, ffb, bvars, e_args, imgs, ffmpeg, crf, pix_fmt, filters,
                 td_exists, cmd, launched, e_ret, e_err, folder, mktemps>>

\* lines 124-138
BuildCommand ==
  /\ tool = "encode" /\ e_pc = "command"
  /\ cmd' = Command(e_args, Val(ffmpeg), crf, pix_fmt, filters)
  /\ e_pc' = "run"
  /\ UNCHANGED <<tool, ffb, bvars, e_args, imgs, ffmpeg, crf, pix_fmt, filters,
                 td_exists, concat, launched, e_ret, e_exc, e_err, folder, mktemps>>

\* lines 140-142: --dry-run prints the command and returns 0
DryRun ==
  /\ tool = "encode" /\ e_pc = "run" /\ e_args.dry_run
  /\ e_ret' = Some(0) /\ e_pc' = "cleanup"
  /\ UNCHANGED <<tool, ffb, bvars, e_args, imgs, ffmpeg, crf, pix_fmt, filters,
                 td_exists, concat, cmd, launched, e_exc, e_err, folder, mktemps>>

\* lines 144-150: subprocess.run(cmd, check=True); the encoder exits with rc, or
\* the launch itself fails with an OSError, which main does not catch
Encode ==
  /\ tool = "encode" /\ e_pc = "run" /\ ~e_args.dry_run
  /\ launched' = Append(launched, [cmd |-> cmd, concat |-> concat])
  /\ \E rc \in {0, 1, 2, -1} :
       \/ rc = -1 /\ e_exc' = "OSError" /\ e_ret' = e_ret /\ e_err' = e_err
       \/ rc = 0 /\ e_exc' = e_exc /\ e_ret' = e_ret /\ e_err' = e_err
       \/ rc > 0 /\ e_exc' = e_exc /\ e_ret' = Some(rc) /\ e_err' = "ffmpeg failed"
  /\ e_pc' = "cleanup"
  /\ UNCHANGED <<tool, ffb, bvars, e_args, imgs, ffmpeg, crf, pix_fmt, filters,
                 td_exists, concat, cmd, folder, mktemps>>

\* a scratch directory made with mkdtemp: nothing removes it
Cleanup_Keeps ==
  /\ tool = "encode" /\ e_pc = "cleanup"
  /\ e_pc' = IF e_exc # "" THEN "raised" ELSE IF ~IsNone(e_ret) THEN "returned" ELSE "after"
  /\ UNCHANGED <<tool, ffb, bvars, e_args, imgs, ffmpeg, crf, pix_fmt, filters,
                 td_exists, concat, cmd, launched, e_ret, e_exc, e_err, folder, mktemps>>

\* leaving the with block, by return, by exception or at its end:
\* TemporaryDirectory removes the directory and list.txt in it
Cleanup ==
  /\ tool = "encode" /\ e_pc = "cleanup"
  /\ td_exists' = FALSE /\ concat' = None
  /\ e_pc' = IF e_exc # "" THEN "raised" ELSE IF ~IsNone(e_ret) THEN "returned" ELSE "after"
  /\ UNCHANGED <<tool, ffb, bvars, e_args, imgs, ffmpeg, crf, pix_fmt, filters,
                 cmd, launched, e_ret, e_exc, e_err, folder, mktemps>>

\* lines 152-153: print("Done."); return 0
Done ==
  /\ tool = "encode" /\ e_pc = "after"
  /\ e_ret' = Some(0) /\ e_pc' = "returned"
  /\ UNCHANGED <<tool, ffb, bvars, e_args, imgs, ffmpeg, crf, pix_fmt, filters,
                 td_exists, concat, cmd, launched, e_exc, e_err, folder, mktemps>>

EncodeNext ==
  \/ CheckInput \/ CollectImages \/ FindFfmpeg \/ Defaults \/ MakeTemp
  \/ BuildConcat \/ BuildCommand \/ DryRun \/ Encode \/ Cleanup \/ Done

(***************************************************************************)
(* find_free_block called on its own                                       *)
(***************************************************************************)
\* the name <stem>_NNN<ext> of the module docstring, for 1 <= i <= 999
NumberedName(stem, i, ext) ==
  LET dg == <<"0", "1", "2", "3", "4", "5", "6", "7", "8", "9">>
  IN stem \o <<"_", dg[(i \div 100) + 1], dg[((i \div 10) % 10) + 1], dg[(i % 10) + 1]>> \o ext

Stem_d == <<"d">>
Ext_png == <<".", "p", "n", "g">>

\* directories for find_free_block: d.png, any set of numbered files under d, and
\* two files numbered without the padding
AllocDirectories ==
  { Entries({NumberedName(Stem_d, i, Ext_png) : i \in Occ}, "file")
      @@ Entries({D_png, <<"d", "_", "1", ".", "p", "n", "g">>,
                  <<"d", "_", "0", "2", ".", "p", "n", "g">>}, "file")
    : Occ \in SUBSET (1..MaxOcc) }

CallFindFreeBlock ==
  /\ tool = "find_free_block" /\ ffb.result = 0
  /\ ffb' = [ffb EXCEPT !.result = find_free_block(fs, ffb.stem, ffb.ext, ffb.count)]
  /\ UNCHANGED <<tool, bvars, evars>>

(***************************************************************************)
(* Specifications                                                          *)
(***************************************************************************)
BounceIdle ==
  /\ fs = <<>> /\ dir0 = <<>> /\ b_args = <<>> /\ b_pc = "idle" /\ b_run = 0
  /\ planned = <<>> /\ BounceLocals0

EncodeIdle ==
  /\ e_args = <<>> /\ e_pc = "idle" /\ imgs = <<>> /\ ffmpeg = None /\ crf = None
  /\ pix_fmt = None /\ filters = <<>> /\ td_exists = FALSE /\ concat = None
  /\ cmd = <<>> /\ launched = <<>> /\ e_ret = None /\ e_exc = "" /\ e_err = ""
  /\ folder = "" /\ mktemps = 0

\* img2vid-bounce starts in a directory with parsed arguments
InitBounce ==
  /\ tool = "bounce" /\ ffb = <<>>
  /\ fs \in Directories /\ dir0 = fs
  /\ b_args \in BounceArgs
  /\ b_pc = "start" /\ b_run = 1 /\ planned = <<>>
  /\ BounceLocals0
  /\ EncodeIdle

\* img2vid starts with parsed arguments
InitEncode ==
  /\ tool = "encode" /\ ffb = <<>>
  /\ BounceIdle
  /\ e_args \in EncodeArgs
  /\ e_pc = "check" /\ imgs = <<>> /\ ffmpeg = None /\ crf = None
  /\ pix_fmt = None /\ filters = <<>> /\ td_exists = FALSE /\ concat = None
  /\ cmd = <<>> /\ launched = <<>> /\ e_ret = None /\ e_exc = "" /\ e_err = ""
  /\ folder = "" /\ mktemps = 0

Init == InitBounce \/ InitEncode

Next == BounceNext \/ EncodeNext

Spec == Init /\ [][Next]_vars

\* find_free_block applied to a directory and a count
InitAlloc ==
  /\ tool = "find_free_block"
  /\ fs \in AllocDirectories /\ dir0 = fs
  /\ ffb \in [stem : {Stem_d}, ext : {Ext_png}, count : 1..MaxCount, result : {0}]
  /\ b_args = <<>> /\ b_pc = "idle" /\ b_run = 0 /\ planned = <<>> /\ BounceLocals0
  /\ EncodeIdle

NextAlloc == CallFindFreeBlock

SpecAlloc == InitAlloc /\ [][NextAlloc]_vars


(***************************************************************************)
(* Properties                                                              *)
(***************************************************************************)
D_001_png == <<"d", "_", "0", "0", "1", ".", "p", "n", "g">>
D_002_png == <<"d", "_", "0", "0", "2", ".", "p", "n", "g">>
D_003_png == <<"d", "_", "0", "0", "3", ".", "p", "n", "g">>

BounceRealDone == tool = "bounce" /\ b_pc = "done" /\ ~b_args.dry_run

\* C1: a bounce run without --dry-run that resolved the range (s, e) ends having
\* created exactly e - s new files; the j-th (j = 0 .. e-s-1) is named
\* <end_stem>_<n+j as three digits><end_ext>, n being find_free_block's result and
\* the stem and extension those of files[e], and holds the content of files[e-1-j];
\* files[e] is never a copy source, nothing else in the directory changes, and with
\* s = e no file is created and the run ends without an error.
C1_BounceCreatesMirror ==
  BounceRealDone =>
    LET n == e0 - s0
        New(j) == NumberedName(end_stem, start_block + j, end_ext)
    IN /\ b_err = ""
       /\ Len(copies) = n
       /\ DOMAIN fs \ DOMAIN dir0 = {New(j) : j \in 0..(n - 1)}
       /\ Cardinality(DOMAIN fs \ DOMAIN dir0) = n
       /\ \A j \in 0..(n - 1) :
            /\ fs[New(j)] = [kind |-> "file", data |-> dir0[files[(e0 - 1 - j) + 1]].data]
            /\ copies[j + 1] = <<files[(e0 - 1 - j) + 1], New(j)>>
       /\ \A i \in 1..Len(copies) : copies[i][1] # files[e0 + 1]
       /\ \A f \in DOMAIN dir0 : fs[f] = dir0[f]

\* the scenario a.png, B.png, c.png, d.png with --start 1 --end 4
C1_Witness ==
  /\ BounceRealDone
  /\ b_args.start = Some(1) /\ b_args.end = Some(4)
  /\ files = <<A_png, B_png, C_png, D_png>>
  /\ created = <<D_001_png, D_002_png, D_003_png>>
  /\ fs[D_001_png].data = C_png /\ fs[D_002_png].data = B_png
  /\ fs[D_003_png].data = A_png

\* C2: find_free_block(stem, ext, k) returns the smallest n >= 1 such that none of
\* stem_n.ext .. stem_(n+k-1).ext, numbered with three digits, exists.
C2_SmallestFreeBlock ==
  (tool = "find_free_block" /\ ffb.result # 0) =>
    LET Free(m) == \A i \in m..(m + ffb.count - 1) :
                      NumberedName(ffb.stem, i, ffb.ext) \notin DOMAIN fs
    IN /\ ffb.result >= 1
       /\ Free(ffb.result)
       /\ \A m \in 1..(ffb.result - 1) : ~Free(m)

\* numbers 1..3 and 7..9 occupied, k = 3: the result is 4
C2_Witness ==
  /\ tool = "find_free_block" /\ ffb.count = 3 /\ ffb.result = 4
  /\ {i \in 1..MaxOcc : NumberedName(ffb.stem, i, ffb.ext) \in DOMAIN fs}
       = {1, 2, 3, 7, 8, 9}

\* C3: once resolve_range has returned (s, e), 0 <= s <= e < len(files), and (s, e)
\* are the bounds that were asked for; a run that resolve_range (or the empty list)
\* ended has allocated nothing and copied nothing.
C3_ResolvedRangeValid ==
  tool = "bounce" =>
    /\ b_pc \in {"plan", "copy", "done"} =>
         /\ 0 <= s0 /\ s0 <= e0 /\ e0 < Len(files)
         /\ (IsNone(b_args.from_name) /\ IsNone(b_args.to_name)
               /\ ~IsNone(b_args.start) /\ ~IsNone(b_args.end))
              => (s0 = Val(b_args.start) - 1 /\ e0 = Val(b_args.end) - 1)
         /\ (IsNone(b_args.from_name) /\ IsNone(b_args.to_name)
               /\ IsNone(b_args.start) /\ IsNone(b_args.end))
              => (s0 = 0 /\ e0 = Len(files) - 1)
    /\ b_pc = "exit" =>
         /\ b_err # "" /\ start_block = 0 /\ created = <<>> /\ copies = <<>>
         /\ fs = dir0

\* index bounds resolved to an inner range, the allocation about to run
C3_Witness ==
  /\ tool = "bounce" /\ b_pc = "copy" /\ ~b_args.dry_run
  /\ b_args.start = Some(2) /\ b_args.end = Some(3) /\ s0 = 1 /\ e0 = 2
  /\ Len(files) > 3

\* C4: at every point of a run, each destination copied to was absent when the run
\* started, the destinations are pairwise distinct, and every entry the directory
\* held at the start is still there with its content.
C4_NoOverwrite ==
  (tool = "bounce" /\ b_pc \in {"copy", "done"}) =>
    /\ \A i \in 1..Len(copies) : copies[i][2] \notin DOMAIN dir0
    /\ \A i, j \in 1..Len(copies) : i # j => copies[i][2] # copies[j][2]
    /\ \A f \in DOMAIN dir0 : f \in DOMAIN fs /\ fs[f] = dir0[f]

\* d_001.png existed before the run, which copied two files or more after it
C4_Witness ==
  /\ BounceRealDone /\ Len(copies) >= 2
  /\ D_001_png \in DOMAIN dir0 /\ end_file = D_png /\ start_block = 2

\* C5: a run with --dry-run never changes the directory and copies nothing, and
\* the same command run again without --dry-run performs exactly the copies the
\* dry run printed, in the same order.
C5_DryRunPlansRealRun ==
  tool = "bounce" =>
    /\ b_args.dry_run => (fs = dir0 /\ copies = <<>>)
    /\ b_run = 2 =>
         /\ Len(copies) <= Len(planned)
         /\ copies = SubSeq(planned, 1, Len(copies))
    /\ (b_run = 2 /\ b_pc \in {"done", "exit"}) => copies = planned

\* a dry run over a directory holding d_001.png, then the real run: same pairs
C5_Witness ==
  /\ tool = "bounce" /\ b_run = 2 /\ b_pc = "done"
  /\ Len(planned) >= 2 /\ copies = planned /\ start_block > 1

BothKinds ==
  /\ ~IsNone(b_args.from_name) \/ ~IsNone(b_args.to_name)
  /\ ~IsNone(b_args.start) \/ ~IsNone(b_args.end)

\* C6 as stated: with a filename bound and an index bound in the same invocation,
\* resolution fails and no file is created.
C6_MutuallyExclusive ==
  (tool = "bounce" /\ BothKinds /\ b_pc \notin {"start", "resolve"}) =>
    (b_pc = "exit" /\ b_err # "" /\ copies = <<>>)

\* C6 amended: with a filename bound supplied, the index bounds are ignored:
\* resolution succeeds exactly when both filenames are given, both are in the
\* list and --from-name is not after --to-name, and it returns their positions;
\* otherwise the run ends with an error and no file is created.
C6_NamesTakePriority ==
  (tool = "bounce" /\ BothKinds /\ b_pc \notin {"start", "resolve"}) =>
    LET fr == b_args.from_name
        to == b_args.to_name
        Listed(o) == \E i \in 1..Len(files) : files[i] = Val(o)
        NamesOk == /\ ~IsNone(fr) /\ ~IsNone(to) /\ Listed(fr) /\ Listed(to)
                   /\ \E i, j \in 1..Len(files) :
                        i <= j /\ files[i] = Val(fr) /\ files[j] = Val(to)
    IN IF NamesOk
       THEN b_pc # "exit" /\ files[s0 + 1] = Val(fr) /\ files[e0 + 1] = Val(to)
       ELSE b_pc = "exit" /\ b_err # "" /\ copies = <<>> /\ fs = dir0

\* both kinds of bounds given, the names a.png .. d.png resolved and copied
C6_Witness ==
  /\ BounceRealDone /\ BothKinds
  /\ ~IsNone(b_args.start) /\ ~IsNone(b_args.end)
  /\ b_args.from_name = Some(A_png) /\ b_args.to_name = Some(D_png)
  /\ s0 = 0 /\ e0 = Len(files) - 1 /\ Len(copies) >= 2

\* C7: the manifest of n >= 1 images has 2n lines: for each of the first n-1 images
\* its file line followed by a duration line 1/fps, then the n-th image's file line
\* with no duration after it, then that file line once more as the last line; that
\* is n+1 file lines and n-1 duration lines.
C7_ManifestShape ==
  (tool = "encode" /\ ~IsNone(concat)) =>
    LET L == Val(concat)
        n == Len(imgs)
        IsFile(k, p) == L[k].kw = "file" /\ L[k].arg = _escape_single_quotes(p)
        IsDuration(k) == L[k].kw = "duration" /\ L[k].arg = <<1, e_args.fps>>
    IN /\ n >= 1 /\ Len(L) = 2 * n
       /\ \A i \in 1..(n - 1) : IsFile(2 * i - 1, imgs[i]) /\ IsDuration(2 * i)
       /\ IsFile(2 * n - 1, imgs[n]) /\ IsFile(2 * n, imgs[n])
       /\ Cardinality({k \in 1..Len(L) : L[k].kw = "file"}) = n + 1
       /\ Cardinality({k \in 1..Len(L) : L[k].kw = "duration"}) = n - 1

\* a manifest of three images has been written
C7_Witness ==
  /\ tool = "encode" /\ e_pc = "command" /\ Len(imgs) = 3 /\ ~IsNone(concat)
  /\ Len(Val(concat)) = 6

\* the word after the option w in command line c
OptValue(c, w) ==
  LET i == CHOOSE i \in 1..(Len(c) - 1) : c[i].t = "word" /\ c[i].v = w
  IN c[i + 1].v

\* C8 as stated: with --lossless and libx264 the command carries -crf <--crf if
\* given, else 0> and -pix_fmt <--pix-fmt if given, else yuv444p>.
C8_LosslessDefaults ==
  (tool = "encode" /\ cmd # <<>> /\ e_args.lossless /\ e_args.codec = Libx264) =>
    /\ OptValue(cmd, "-crf") = IF IsNone(e_args.crf) THEN 0 ELSE Val(e_args.crf)
    /\ OptValue(cmd, "-pix_fmt")
         = IF IsNone(e_args.pix_fmt) THEN "yuv444p" ELSE Val(e_args.pix_fmt)

\* C9: when main has ended, by return or by exception, neither the scratch
\* directory nor the manifest exists; and every launch of the encoder saw the
\* manifest complete: 2 * len(imgs) lines ending with the last image's file line.
C9_ScratchRemoved ==
  tool = "encode" =>
    /\ e_pc \in {"returned", "raised"} => (~td_exists /\ IsNone(concat))
    /\ ~IsNone(concat) => td_exists
    /\ \A i \in 1..Len(launched) :
         /\ ~IsNone(launched[i].concat)
         /\ Len(Val(launched[i].concat)) = 2 * Len(imgs)
         /\ Val(launched[i].concat)[2 * Len(imgs)].kw = "file"

\* the encoder was launched and exited with 1; main returned 1
C9_Witness ==
  /\ tool = "encode" /\ e_pc = "returned" /\ e_ret = Some(1)
  /\ mktemps = 1 /\ Len(launched) = 1 /\ ~td_exists /\ IsNone(concat)

\* C10: a bounce run ended by sys.exit has made no copy; an encode run that
\* reported the input folder (return 2), no images (return 3) or a missing ffmpeg
\* has created no scratch directory or manifest and launched nothing; and a folder
\* that is missing or no directory always ends the run with 2, before any image
\* is looked for.
C10_ValidationFirst ==
  /\ (tool = "bounce" /\ b_pc = "exit") =>
       /\ b_err \in {"no_images", "name_not_found", "names_together",
                      "index_together", "bad_range"}
       /\ copies = <<>> /\ created = <<>> /\ fs = dir0
  /\ (tool = "bounce" /\ copies # <<>>) => b_err = ""
  /\ (tool = "encode"
        /\ (e_err \in {"input_folder", "no_images"}
              \/ e_exc = "SystemExit: ffmpeg not found")) =>
       /\ mktemps = 0 /\ ~td_exists /\ IsNone(concat) /\ launched = <<>>
       /\ e_pc \in {"returned", "raised"}
  /\ (tool = "encode" /\ e_err = "input_folder") =>
       (e_ret = Some(2) /\ folder # "dir" /\ imgs = <<>>)
  /\ (tool = "encode" /\ e_err = "no_images") => (e_ret = Some(3) /\ folder = "dir")
  /\ (tool = "encode" /\ folder \in {"missing", "file"}) =>
       (e_pc = "returned" /\ e_ret = Some(2) /\ e_err = "input_folder")

\* an encode run ended with 3: the folder was a directory and held no image
C10_Witness ==
  /\ tool = "encode" /\ e_pc = "returned" /\ e_ret = Some(3) /\ folder = "dir"
  /\ mktemps = 0

=============================================================================
